---- MODULE Spec2Model ----
(***************************************************************************)
(* Descriptor passing over a connected Unix stream socket (package oob).   *)
(*                                                                         *)
(* Two processes: "A" dials and sends (testdata/sendfile), "B" accepts,    *)
(* receives and resolves (the test process).  The model holds what the     *)
(* code acts on: each process's descriptor table, the socket's receive     *)
(* queue, the Go objects that own a descriptor (handles held by the        *)
(* caller, and unreachable ones whose finalizer will close the number      *)
(* they wrap), and the result of the last call.                            *)
(***************************************************************************)
EXTENDS Integers, Sequences, FiniteSets, TLC

\* ---- bounds of the model
MaxFd == 4        \* descriptor numbers are 0 .. MaxFd-1
NumFiles == 1     \* regular files 1 .. NumFiles
MaxQueue == 2     \* segments the socket buffer holds before a send blocks
MaxGarbage == 2   \* unreachable finalizable objects per descriptor number
MaxHeld == 1      \* handles the caller holds besides the connection
MaxSends == 2     \* successful SendFD calls
MaxWrites == 1    \* ordinary Write calls
MaxCalls == 2     \* resolver calls
MaxByte == 1      \* ordinary bytes are 0 .. MaxByte
MaxRights == 2    \* descriptors one control message in buf has room for
MaxScans == 1     \* ToFd(inode) calls followed step by step
MaxOpens == 2     \* descriptors B's other thread has opened and not closed

VARIABLES
  fdtab,    \* fdtab[p]: open descriptor number -> inode of the resource
  garbage,  \* garbage[p][n]: unreachable objects whose finalizer closes n
  held,     \* held[p]: handle id -> [kind, fd] of the objects the caller holds
  queue,    \* B's receive queue: <<[b: byte, fds: resources in flight, ..]>>
  nsent,    \* number of SendFD calls that succeeded
  nrecv,    \* number of RecvFD calls that succeeded
  ncalls,   \* number of resolver calls made
  wlog,     \* ordinary bytes written by A, in order
  rlog,     \* ordinary bytes read by B, in order
  owned,    \* descriptors B got from RecvFD and has not closed itself
  deadline, \* the read deadline of B's connection: "none", "set", "expired"
  scan,     \* where a ToFd(inode) running beside B's other thread stands
  ret       \* the last call: what it was given and what it returned

vars == <<fdtab, garbage, held, queue, nsent, nrecv, ncalls, wlog, rlog, owned, deadline,
         scan, ret>>

Procs == {"A", "B"}
Fds == 0 .. (MaxFd - 1)
Bytes == 0 .. MaxByte

\* ---- resources, named by inode
Files == 1 .. NumFiles
SockX == NumFiles + 1   \* a connected socket of another connection
SockA == NumFiles + 2   \* A's end of the channel
SockB == NumFiles + 3   \* B's end of the channel
Inodes == 1 .. (NumFiles + 3)
Ghost == NumFiles + 4   \* an inode no process has open
IsSocket(i) == i > NumFiles

\* uintptr(^0): the one value os.NewFile rejects (int(fd) < 0)
BadFd == 0 - 1

\* ---- the four representations a resolver accepts (thing interface{})
FdT(n) == [t |-> "fd", v |-> n]
InoT(i) == [t |-> "inode", v |-> i]
FileT(h) == [t |-> "file", v |-> h]
ConnT(h) == [t |-> "conn", v |-> h]
NoThing == [t |-> "none", v |-> 0]

\* The value of a call, computed once: the one element of a singleton
The(S) == CHOOSE x \in S : TRUE

\* ---- kernel descriptor table
HasFree(tab) == (Fds \ DOMAIN tab) # {}
LowestFree(tab) == CHOOSE n \in Fds \ DOMAIN tab : \A m \in Fds \ DOMAIN tab : n <= m
Install(tab, r) ==
  LET n == LowestFree(tab)
  IN [m \in DOMAIN tab \cup {n} |-> IF m = n THEN r ELSE tab[m]]
CloseNum(tab, n) == [m \in DOMAIN tab \ {n} |-> tab[m]]

\* Whether some descriptor anywhere, or a message in flight, still refers to
\* socket s: its peer sees end-of-stream / EPIPE only when nothing does.
InFlight(q) == UNION {q[i].fds : i \in DOMAIN q}
SockOpen(s) ==
  \/ \E p \in Procs : \E n \in DOMAIN fdtab[p] : fdtab[p][n] = s
  \/ s \in InFlight(queue)

\* ---- the Go objects a call works with
\* The view a call of process p has: its table, its objects, and whether
\* /proc/self/fd can be read.  over records that the call needed more than
\* the model's bounds allow; such a call is not taken.
W(p, procfs) ==
  [tab |-> fdtab[p], garb |-> garbage[p], held |-> held[p],
   over |-> FALSE, procfs |-> procfs]

\* os.NewFile(n, name) whose result is unreachable when the call returns:
\* the object keeps its finalizer, which closes descriptor number n.
Wrap(w, n) ==
  [w EXCEPT !.garb[n] = @ + 1, !.over = @ \/ (w.garb[n] >= MaxGarbage)]

\* An *os.File or net.Conn value: the descriptor it owns, and id, the
\* caller's handle on it (0: an object made inside the running call).
\* Handle TheConn is the *net.UnixConn that UnixConn embeds.
TheConn == 1
NoFile == [id |-> 0, fd |-> BadFd]
Obj(p, h) == [id |-> h, fd |-> held[p][h].fd]
Discard(w, file) == IF file.id = 0 /\ file.fd \in Fds THEN Wrap(w, file.fd) ELSE w

\* The caller keeps the object a call returned to it; an object that is
\* the caller's already stays what it is.
FreeIds(w) == ((TheConn + 1) .. (TheConn + MaxHeld)) \ DOMAIN w.held
Hold(w, kind, obj) ==
  IF obj.id # 0 THEN [obj |-> obj, w |-> w]
  ELSE IF FreeIds(w) = {} THEN [obj |-> obj, w |-> [w EXCEPT !.over = TRUE]]
  ELSE LET i == CHOOSE x \in FreeIds(w) : \A y \in FreeIds(w) : x <= y
       IN [obj |-> [id |-> i, fd |-> obj.fd],
           w |-> [w EXCEPT !.held = [h \in DOMAIN w.held \cup {i} |->
                    IF h = i THEN [kind |-> kind, fd |-> obj.fd] ELSE w.held[h]]]]

\* file.Stat(): fstat on the number the object wraps
Stat(tab, n) ==
  IF n \in DOMAIN tab THEN [val |-> tab[n], err |-> "nil"]
  ELSE [val |-> 0, err |-> "EBADF"]

\* ---- /proc/self/fd
\* fi.Name() of descriptor n, as decimal digits
RECURSIVE Digits(_)
Digits(n) == IF n < 10 THEN <<n>> ELSE Append(Digits(n \div 10), n % 10)

\* ioutil.ReadDir sorts the entries by name, as strings
NameLess(a, b) ==
  LET x == Digits(a)
      y == Digits(b)
  IN \E i \in 1 .. (Len(x) + 1) :
       /\ \A j \in 1 .. (i - 1) : j <= Len(y) /\ x[j] = y[j]
       /\ \/ i > Len(x) /\ i <= Len(y)
          \/ i <= Len(x) /\ i <= Len(y) /\ x[i] < y[i]

\* A faulty ReadDir order: the entries sorted by name, descending
SortByNameRev(S) ==
  [i \in 1 .. Cardinality(S) |->
     CHOOSE x \in S : Cardinality({y \in S : NameLess(x, y)}) = i - 1]

SortByName(S) ==
  [i \in 1 .. Cardinality(S) |->
     CHOOSE x \in S : Cardinality({y \in S : NameLess(y, x)}) = i - 1]

\* ioutil.ReadDir("/proc/self/fd/"): the directory is opened on the lowest
\* free number, which is listed with the others, and closed again.
ReadDir(w) ==
  IF ~w.procfs THEN [names |-> <<>>, err |-> "LookupFailed", w |-> w]
  ELSE IF ~HasFree(w.tab)
    THEN [names |-> <<>>, err |-> "EMFILE", w |-> [w EXCEPT !.over = TRUE]]
  ELSE [names |-> The({SortByName(S) : S \in {DOMAIN w.tab \cup {LowestFree(w.tab)}}}),
        err |-> "nil", w |-> w]

\* ---- the resolver (utils.go, latest revision)
\* ToFd of a uintptr: os.NewFile returns nil only for uintptr(^0); the
\* object made for any other number is dropped at once.
ToFdNum(w, n) ==
  IF n = BadFd
  THEN [val |-> 0, err |-> "NotAnFd", w |-> w]
  ELSE [val |-> n, err |-> "nil", w |-> Wrap(w, n)]

\* A faulty ToFile: the *os.File is made on a duplicate of the descriptor
FileOfDup(r) ==
  IF r.err = "nil" /\ r.val \in DOMAIN r.w.tab /\ HasFree(r.w.tab)
  THEN [file |-> [id |-> 0, fd |-> LowestFree(r.w.tab)], err |-> "nil",
        w |-> [r.w EXCEPT !.tab = Install(r.w.tab, r.w.tab[r.val])]]
  ELSE IF r.err = "nil"
  THEN [file |-> [id |-> 0, fd |-> r.val], err |-> "nil", w |-> r.w]
  ELSE [file |-> NoFile, err |-> "NoFile", w |-> r.w]

\* ToFile's second half: an *os.File made from what ToFd returned
FileOf(r) ==
  IF r.err = "nil"
  THEN [file |-> [id |-> 0, fd |-> r.val], err |-> "nil", w |-> r.w]
  ELSE [file |-> NoFile, err |-> "NoFile", w |-> r.w]

\* ToInode's second half: Stat of the file ToFile returned, which is then
\* unreachable unless it is the caller's
InodeOf(f) ==
  IF f.err # "nil" THEN [val |-> 0, err |-> f.err, w |-> f.w]
  ELSE LET st == Stat(f.w.tab, f.file.fd)
       IN [val |-> st.val, err |-> st.err, w |-> Discard(f.w, f.file)]

\* ToInode of a uintptr, as the loop over the directory entries calls it
ToInodeNum(w, n) == The({InodeOf(FileOf(r)) : r \in {ToFdNum(w, n)}})

\* A faulty loop: an entry whose ToInode fails ends the search
RECURSIVE ScanAbort(_, _, _)
ScanAbort(w, names, inode) ==
  IF names = <<>> THEN [found |-> FALSE, fd |-> 0, w |-> w]
  ELSE The({IF r.err # "nil" THEN [found |-> FALSE, fd |-> 0, w |-> r.w]
            ELSE IF r.val = inode
            THEN [found |-> TRUE, fd |-> Head(names), w |-> r.w]
            ELSE ScanAbort(r.w, Tail(names), inode)
              : r \in {ToInodeNum(w, Head(names))}})

\* The loop over the directory entries: the first entry, in ReadDir's
\* order, whose ToInode succeeds and equals inode.  Every entry that is
\* probed goes through ToInode, objects and all.
RECURSIVE Scan(_, _, _)
Scan(w, names, inode) ==
  IF names = <<>> THEN [found |-> FALSE, fd |-> 0, w |-> w]
  ELSE The({IF r.err = "nil" /\ r.val = inode
            THEN [found |-> TRUE, fd |-> Head(names), w |-> r.w]
            ELSE Scan(r.w, Tail(names), inode)
              : r \in {ToInodeNum(w, Head(names))}})

\* A faulty ToFd of an inode: the loop's fall-through returns no error
ToFdInodeZero(w, inode) ==
  The({IF d.err # "nil" THEN [val |-> 0, err |-> d.err, w |-> d.w]
       ELSE The({IF s.found THEN [val |-> s.fd, err |-> "nil", w |-> s.w]
                 ELSE [val |-> 0, err |-> "nil", w |-> s.w]
                   : s \in {Scan(d.w, d.names, inode)}})
         : d \in {ReadDir(w)}})

\* ToFd of an inode
ToFdInode(w, inode) ==
  The({IF d.err # "nil" THEN [val |-> 0, err |-> d.err, w |-> d.w]
       ELSE The({IF s.found THEN [val |-> s.fd, err |-> "nil", w |-> s.w]
                 ELSE [val |-> 0, err |-> "NotFound", w |-> s.w]
                   : s \in {Scan(d.w, d.names, inode)}})
         : d \in {ReadDir(w)}})

\* A faulty ToFd: a connection's descriptor is taken from conn.File(),
\* which is a duplicate
ToFdViaFile(w, thing) ==
  CASE thing.t = "fd" -> ToFdNum(w, thing.v)
    [] thing.t = "inode" -> ToFdInode(w, thing.v)
    [] thing.t = "file" -> [val |-> thing.v.fd, err |-> "nil", w |-> w]
    [] thing.t = "conn" ->
         IF thing.v.fd \notin DOMAIN w.tab
         THEN [val |-> 0, err |-> "EBADF", w |-> w]
         ELSE IF ~HasFree(w.tab)
         THEN [val |-> 0, err |-> "EMFILE", w |-> [w EXCEPT !.over = TRUE]]
         ELSE [val |-> LowestFree(w.tab), err |-> "nil",
               w |-> Wrap([w EXCEPT !.tab = Install(w.tab, w.tab[thing.v.fd])],
                          LowestFree(w.tab))]
    [] OTHER -> [val |-> 0, err |-> "NoFd", w |-> w]

ToFd(w, thing) ==
  CASE thing.t = "fd" -> ToFdNum(w, thing.v)
    [] thing.t = "inode" -> ToFdInode(w, thing.v)
    [] thing.t \in {"file", "conn"} ->
         \* SyscallConn().Control hands out the object's own descriptor
         [val |-> thing.v.fd, err |-> "nil", w |-> w]
    [] OTHER -> [val |-> 0, err |-> "NoFd", w |-> w]

ToFile(w, thing) ==
  IF thing.t = "file"
  THEN [file |-> thing.v, err |-> "nil", w |-> w]
  ELSE The({FileOf(r) : r \in {ToFd(w, thing)}})

\* A faulty net.FileConn: the connection takes over file's own descriptor
FileConnNoDup(w, file) ==
  IF file.fd \notin DOMAIN w.tab
  THEN [conn |-> NoFile, err |-> "EBADF", w |-> w]
  ELSE IF ~IsSocket(w.tab[file.fd])
  THEN [conn |-> NoFile, err |-> "ENOTSOCK", w |-> w]
  ELSE [conn |-> [id |-> 0, fd |-> file.fd], err |-> "nil", w |-> w]

\* A faulty net.FileConn: what the descriptor refers to is not looked at
FileConnAny(w, file) ==
  IF file.fd \notin DOMAIN w.tab
  THEN [conn |-> NoFile, err |-> "EBADF", w |-> w]
  ELSE IF ~HasFree(w.tab)
  THEN [conn |-> NoFile, err |-> "EMFILE", w |-> [w EXCEPT !.over = TRUE]]
  ELSE [conn |-> [id |-> 0, fd |-> LowestFree(w.tab)], err |-> "nil",
        w |-> [w EXCEPT !.tab = Install(w.tab, w.tab[file.fd])]]

\* net.FileConn(file): a connection on a duplicate of file's descriptor
FileConn(w, file) ==
  IF file.fd \notin DOMAIN w.tab
  THEN [conn |-> NoFile, err |-> "EBADF", w |-> w]
  ELSE IF ~HasFree(w.tab)
  THEN [conn |-> NoFile, err |-> "EMFILE", w |-> [w EXCEPT !.over = TRUE]]
  ELSE IF ~IsSocket(w.tab[file.fd])
  THEN [conn |-> NoFile, err |-> "ENOTSOCK", w |-> w]
  ELSE [conn |-> [id |-> 0, fd |-> LowestFree(w.tab)], err |-> "nil",
        w |-> [w EXCEPT !.tab = Install(w.tab, w.tab[file.fd])]]

\* The connection made from a file, which is then unreachable unless it is
\* the caller's; src is the descriptor the connection was made from
ConnOf(f) ==
  The({[conn |-> c.conn, src |-> f.file.fd, err |-> c.err,
        w |-> Discard(c.w, f.file)]
         : c \in {FileConn(f.w, f.file)}})

\* A faulty ToConn: without the early return for a net.Conn
ToConnAlways(w, thing) ==
  The({IF f.err # "nil"
       THEN [conn |-> NoFile, src |-> BadFd, err |-> f.err, w |-> f.w]
       ELSE ConnOf(f)
         : f \in {ToFile(w, thing)}})

ToConn(w, thing) ==
  IF thing.t = "conn"
  THEN [conn |-> thing.v, src |-> thing.v.fd, err |-> "nil", w |-> w]
  ELSE The({IF f.err # "nil"
            THEN [conn |-> NoFile, src |-> BadFd, err |-> f.err, w |-> f.w]
            ELSE ConnOf(f)
              : f \in {ToFile(w, thing)}})

\* A faulty ToInode: an inode is looked up like ToFd does, and refused
\* when no descriptor has it
ToInodeStrict(w, thing) ==
  IF thing.t = "inode"
  THEN The({IF r.err # "nil" THEN [val |-> 0, err |-> r.err, w |-> r.w]
            ELSE [val |-> thing.v, err |-> "nil", w |-> r.w]
              : r \in {ToFdInode(w, thing.v)}})
  ELSE The({InodeOf(f) : f \in {ToFile(w, thing)}})

ToInode(w, thing) ==
  IF thing.t = "inode"
  THEN The({IF d.err # "nil" THEN [val |-> 0, err |-> d.err, w |-> d.w]
            ELSE [val |-> thing.v, err |-> "nil",
                  w |-> Scan(d.w, d.names, thing.v).w]
              : d \in {ReadDir(w)}})
  ELSE The({InodeOf(f) : f \in {ToFile(w, thing)}})

\* ---- InodeToFile / InodeToConn (utils.go, with that revision's ToInode
\* and ToFile, which take a descriptor and make one object per call)
RECURSIVE InodeToFileScan(_, _, _)
InodeToFileScan(w, names, inode) ==
  IF names = <<>> THEN [file |-> NoFile, w |-> w]
  ELSE The({IF Stat(w.tab, Head(names)) = [val |-> inode, err |-> "nil"]
            THEN [file |-> [id |-> 0, fd |-> Head(names)], w |-> w1]
            ELSE InodeToFileScan(w1, Tail(names), inode)
              : w1 \in {Wrap(w, Head(names))}})

InodeToFile(w, inode) ==
  The({IF d.err # "nil" THEN [file |-> NoFile, w |-> d.w]
       ELSE InodeToFileScan(d.w, d.names, inode)
         : d \in {ReadDir(w)}})

InodeToConn(w, inode) ==
  The({IF f.file = NoFile
       THEN [conn |-> NoFile, src |-> BadFd, err |-> "NotFound", w |-> f.w]
       ELSE ConnOf(f)
         : f \in {InodeToFile(w, inode)}})

\* ---- the descriptor channel (unixconn.go, latest revision)
\* A faulty File(): the *os.File takes the connection's own descriptor
FileOwn(w) ==
  IF TheConn \notin DOMAIN w.held
  THEN [file |-> NoFile, err |-> "ErrClosed", w |-> w]
  ELSE IF w.held[TheConn].fd \notin DOMAIN w.tab
  THEN [file |-> NoFile, err |-> "EBADF", w |-> w]
  ELSE [file |-> [id |-> 0, fd |-> w.held[TheConn].fd], err |-> "nil", w |-> w]

\* s.UnixConn.File(): an *os.File on a duplicate of the connection's
\* descriptor number, whatever that number refers to by now.
File(w) ==
  IF TheConn \notin DOMAIN w.held
  THEN [file |-> NoFile, err |-> "ErrClosed", w |-> w]
  ELSE IF w.held[TheConn].fd \notin DOMAIN w.tab
  THEN [file |-> NoFile, err |-> "EBADF", w |-> w]
  ELSE IF ~HasFree(w.tab)
  THEN [file |-> NoFile, err |-> "EMFILE", w |-> [w EXCEPT !.over = TRUE]]
  ELSE [file |-> [id |-> 0, fd |-> LowestFree(w.tab)], err |-> "nil",
        w |-> [w EXCEPT !.tab = Install(w.tab, w.tab[w.held[TheConn].fd])]]

\* The connection of p is intact: its object still owns an open descriptor
\* of p's end of the channel.
End(p) == IF p = "A" THEN SockA ELSE SockB
Peer(p) == IF p = "A" THEN SockB ELSE SockA
Connected(p) ==
  /\ TheConn \in DOMAIN held[p]
  /\ held[p][TheConn].fd \in DOMAIN fdtab[p]
  /\ fdtab[p][held[p][TheConn].fd] = End(p)

\* syscall.UnixRights(fd): one SCM_RIGHTS control message with one descriptor
UnixRights(n) == [level |-> "SOL_SOCKET", type |-> "SCM_RIGHTS", fds |-> <<n>>]

\* A faulty Sendmsg: the message carries the socket instead of the
\* descriptors named in rights
SendmsgOwn(w, sock, rights) ==
  IF sock \notin DOMAIN w.tab THEN [err |-> "EBADF", seg |-> <<>>]
  ELSE IF ~IsSocket(w.tab[sock]) THEN [err |-> "ENOTSOCK", seg |-> <<>>]
  ELSE IF ~SockOpen(Peer("A")) THEN [err |-> "EPIPE", seg |-> <<>>]
  ELSE [err |-> "nil", seg |-> <<[b |-> 0, fds |-> {w.tab[sock]}]>>]

\* syscall.Sendmsg(sock, nil, rights, nil, 0) on a stream socket: with no
\* payload given, one zero byte is sent to carry the control message.  The
\* kernel turns the descriptor numbers into references to the resources.
Sendmsg(w, sock, rights) ==
  IF sock \notin DOMAIN w.tab THEN [err |-> "EBADF", seg |-> <<>>]
  ELSE IF ~IsSocket(w.tab[sock]) THEN [err |-> "ENOTSOCK", seg |-> <<>>]
  ELSE IF \E i \in DOMAIN rights.fds : rights.fds[i] \notin DOMAIN w.tab
  THEN [err |-> "EBADF", seg |-> <<>>]
  ELSE IF ~SockOpen(Peer("A")) THEN [err |-> "EPIPE", seg |-> <<>>]
  ELSE [err |-> "nil",
        seg |-> <<[b |-> 0, fds |-> {w.tab[rights.fds[i]] : i \in DOMAIN rights.fds}]>>]

\* What the model notes beside a segment: for a hand-off, the how-manieth
\* it is, the sender's descriptor number and ToInode of it in the sender at
\* the time of the send; k = 0 for ordinary bytes.
Note(seg, k, fd, ino) == [b |-> seg.b, fds |-> seg.fds, k |-> k, fd |-> fd, ino |-> ino]

\* A faulty Recvmsg: the segment is looked at and left in the queue
RecvmsgPeek(w, sock, q) ==
  IF sock \notin DOMAIN w.tab
  THEN [err |-> "EBADF", blocked |-> FALSE, buf |-> <<>>, q |-> q, w |-> w]
  ELSE IF ~IsSocket(w.tab[sock])
  THEN [err |-> "ENOTSOCK", blocked |-> FALSE, buf |-> <<>>, q |-> q, w |-> w]
  ELSE IF w.tab[sock] # End("B") \/ (q = <<>> /\ SockOpen(Peer("B")))
  THEN [err |-> "nil", blocked |-> TRUE, buf |-> <<>>, q |-> q, w |-> w]
  ELSE IF q = <<>> \/ Head(q).fds = {}
  THEN [err |-> "nil", blocked |-> FALSE, buf |-> <<>>, q |-> q, w |-> w]
  ELSE IF ~HasFree(w.tab)
  THEN [err |-> "nil", blocked |-> FALSE, buf |-> <<>>, q |-> q,
        w |-> [w EXCEPT !.over = TRUE]]
  ELSE [err |-> "nil", blocked |-> FALSE,
        buf |-> <<UnixRights(LowestFree(w.tab))>>, q |-> q,
        w |-> [w EXCEPT !.tab = Install(w.tab, CHOOSE r \in Head(q).fds : TRUE)]]

\* A faulty Recvmsg: buf is not zeroed, and at end-of-stream still holds a
\* control message naming the connection's descriptor
RecvmsgStale(w, sock, q) ==
  IF sock \notin DOMAIN w.tab
  THEN [err |-> "EBADF", blocked |-> FALSE, buf |-> <<>>, q |-> q, w |-> w]
  ELSE IF ~IsSocket(w.tab[sock])
  THEN [err |-> "ENOTSOCK", blocked |-> FALSE, buf |-> <<>>, q |-> q, w |-> w]
  ELSE IF w.tab[sock] # End("B") \/ (q = <<>> /\ SockOpen(Peer("B")))
  THEN [err |-> "nil", blocked |-> TRUE, buf |-> <<>>, q |-> q, w |-> w]
  ELSE IF q = <<>>
  THEN [err |-> "nil", blocked |-> FALSE, buf |-> <<UnixRights(sock)>>, q |-> q, w |-> w]
  ELSE IF Head(q).fds = {}
  THEN [err |-> "nil", blocked |-> FALSE, buf |-> <<UnixRights(sock)>>, q |-> Tail(q), w |-> w]
  ELSE IF ~HasFree(w.tab)
  THEN [err |-> "nil", blocked |-> FALSE, buf |-> <<>>, q |-> Tail(q),
        w |-> [w EXCEPT !.over = TRUE]]
  ELSE [err |-> "nil", blocked |-> FALSE,
        buf |-> <<UnixRights(LowestFree(w.tab))>>, q |-> Tail(q),
        w |-> [w EXCEPT !.tab = Install(w.tab, CHOOSE r \in Head(q).fds : TRUE)]]

\* syscall.Recvmsg(sock, nil, buf, 0) with the CmsgSpace(4) buffer that
\* make() zeroed: on a stream socket one payload byte is asked for, so the
\* call takes the segment at the head of the queue, the kernel installs the
\* descriptor that segment carries and writes its control message into buf.
\* With nothing queued it waits (blocked) until the peer is gone, and then
\* reads end-of-stream: no error, buf untouched.
Recvmsg(w, sock, q) ==
  IF sock \notin DOMAIN w.tab
  THEN [err |-> "EBADF", blocked |-> FALSE, buf |-> <<>>, q |-> q, w |-> w]
  ELSE IF ~IsSocket(w.tab[sock])
  THEN [err |-> "ENOTSOCK", blocked |-> FALSE, buf |-> <<>>, q |-> q, w |-> w]
  ELSE IF w.tab[sock] # End("B") \/ (q = <<>> /\ SockOpen(Peer("B")))
  THEN [err |-> "nil", blocked |-> TRUE, buf |-> <<>>, q |-> q, w |-> w]
  ELSE IF q = <<>>
  THEN [err |-> "nil", blocked |-> FALSE, buf |-> <<>>, q |-> q, w |-> w]
  ELSE IF Head(q).fds = {}
  THEN [err |-> "nil", blocked |-> FALSE, buf |-> <<>>, q |-> Tail(q), w |-> w]
  ELSE IF ~HasFree(w.tab)
  THEN [err |-> "nil", blocked |-> FALSE, buf |-> <<>>, q |-> Tail(q),
        w |-> [w EXCEPT !.over = TRUE]]
  ELSE [err |-> "nil", blocked |-> FALSE,
        buf |-> <<UnixRights(LowestFree(w.tab))>>, q |-> Tail(q),
        w |-> [w EXCEPT !.tab = Install(w.tab, CHOOSE r \in Head(q).fds : TRUE)]]

\* syscall.ParseSocketControlMessage(buf): a zeroed buffer has a header of
\* length 0, which is refused with EINVAL
ParseSocketControlMessage(buf) ==
  IF buf = <<>> THEN [msgs |-> <<>>, err |-> "EINVAL"]
  ELSE [msgs |-> buf, err |-> "nil"]

\* syscall.ParseUnixRights(&msgs[0])
ParseUnixRights(m) ==
  IF m.level # "SOL_SOCKET" \/ m.type # "SCM_RIGHTS"
  THEN [fds |-> <<>>, err |-> "EINVAL"]
  ELSE [fds |-> m.fds, err |-> "nil"]

\* RecvFD after Recvmsg returned without error: the control messages in
\* buf are parsed, the first is read as rights and its first descriptor is
\* returned.  fds[0] is taken without looking at len(fds): on an empty
\* slice the index expression panics.
Extract(buf) ==
  The({IF c.err # "nil" THEN [val |-> 0, err |-> c.err]
       ELSE The({IF u.err # "nil" THEN [val |-> 0, err |-> u.err]
                 ELSE IF u.fds = <<>> THEN [val |-> 0, err |-> "panic"]
                 ELSE [val |-> u.fds[1], err |-> "nil"]
                   : u \in {ParseUnixRights(c.msgs[1])}})
         : c \in {ParseSocketControlMessage(buf)}})

\* ---- calls
Commit(p, w) ==
  /\ ~w.over
  /\ fdtab' = [fdtab EXCEPT ![p] = w.tab]
  /\ garbage' = [garbage EXCEPT ![p] = w.garb]
  /\ held' = [held EXCEPT ![p] = w.held]

\* val is the number a call returned (a descriptor, an inode, a byte), obj
\* the object it returned
Result(op, p, arg, val, err, w) ==
  [op |-> op, p |-> p, arg |-> arg, val |-> val, obj |-> NoFile, err |-> err,
   pre |-> fdtab[p], post |-> w.tab]

\* ret after a step that is no call of the package
Quiet == [op |-> "none"]

Alive(p) == TheConn \in DOMAIN held[p]

\* the descriptors A opened itself, which are the ones it passes
Opened == {n \in DOMAIN fdtab["A"] : fdtab["A"][n] \in Files \cup {SockX}}

\* SendFD(fd) on A's connection
SendFD(fd) ==
  \E f \in {File(W("A", TRUE))} :
  \E m \in {Sendmsg(f.w, f.file.fd, UnixRights(fd))} :
  \E w \in {Discard(f.w, f.file)} :
    LET err == IF f.err # "nil" THEN f.err ELSE m.err
    IN /\ Alive("A")
       /\ fd \in Opened
       /\ err = "nil" => Len(queue) < MaxQueue /\ nsent < MaxSends
       /\ Commit("A", w)
       /\ queue' = IF err = "nil"
                   THEN Append(queue, Note(m.seg[1], nsent + 1, fd,
                                           ToInode(f.w, FdT(fd)).val))
                   ELSE queue
       /\ nsent' = IF err = "nil" THEN nsent + 1 ELSE nsent
       /\ ret' = Result("SendFD", "A", FdT(fd), 0, err, w)
       /\ UNCHANGED <<deadline, scan, nrecv, ncalls, wlog, rlog, owned>>

\* RecvFD() on B's connection.  A call that waits in Recvmsg has not
\* returned; the step is the whole call.
RecvFD ==
  \E f \in {File(W("B", TRUE))} :
  \E m \in {Recvmsg(f.w, f.file.fd, queue)} :
  \E x \in {Extract(m.buf)} :
  \E w \in {IF f.err # "nil" THEN f.w ELSE Discard(m.w, f.file)} :
    LET err == IF f.err # "nil" THEN f.err
               ELSE IF m.err # "nil" THEN m.err ELSE x.err
        fd == IF err = "nil" THEN x.val ELSE 0
    IN /\ f.err = "nil" => ~m.blocked
       /\ Commit("B", w)
       /\ queue' = IF f.err = "nil" THEN m.q ELSE queue
       /\ nrecv' = IF err = "nil" THEN nrecv + 1 ELSE nrecv
       /\ owned' = IF err = "nil" THEN owned \cup {fd} ELSE owned
       /\ ret' = [Result("RecvFD", "B", NoThing, fd, err, w) EXCEPT
                    !.arg = [t |-> "queue", v |-> queue, intact |-> Connected("B")]]
       /\ UNCHANGED <<deadline, scan, nsent, ncalls, wlog, rlog>>

\* The *os.File A has on a descriptor it opened (ioutil.TempFile)
FileOfA(fd) == FileT([id |-> TheConn + 1, fd |-> fd])

\* SendFile(file) on A's connection: ToFd(file), then SendFD
SendFile(fd) ==
  \E t \in {ToFd(W("A", TRUE), FileOfA(fd))} :
  \E f \in {File(t.w)} :
  \E m \in {Sendmsg(f.w, f.file.fd, UnixRights(t.val))} :
  \E w \in {Discard(f.w, f.file)} :
    LET err == IF t.err # "nil" THEN t.err
               ELSE IF f.err # "nil" THEN f.err ELSE m.err
    IN /\ Alive("A")
       /\ fd \in Opened
       /\ err = "nil" => Len(queue) < MaxQueue /\ nsent < MaxSends
       /\ Commit("A", w)
       /\ queue' = IF err = "nil"
                   THEN Append(queue, Note(m.seg[1], nsent + 1, fd,
                                           ToInode(f.w, FdT(fd)).val))
                   ELSE queue
       /\ nsent' = IF err = "nil" THEN nsent + 1 ELSE nsent
       /\ ret' = Result("SendFile", "A", FileOfA(fd), 0, err, w)
       /\ UNCHANGED <<deadline, scan, nrecv, ncalls, wlog, rlog, owned>>

\* RecvFile() on B's connection: RecvFD, then ToFile of the descriptor; the
\* caller keeps the *os.File.
RecvFile ==
  \E f \in {File(W("B", TRUE))} :
  \E m \in {Recvmsg(f.w, f.file.fd, queue)} :
  \E x \in {Extract(m.buf)} :
  \E w \in {IF f.err # "nil" THEN f.w ELSE Discard(m.w, f.file)} :
  \E e \in {IF f.err # "nil" THEN f.err
            ELSE IF m.err # "nil" THEN m.err ELSE x.err} :
  \E r \in {IF e = "nil" THEN ToFile(w, FdT(x.val))
            ELSE [file |-> NoFile, err |-> e, w |-> w]} :
  \E h \in {IF r.err = "nil" THEN Hold(r.w, "file", r.file)
            ELSE [obj |-> NoFile, w |-> r.w]} :
    /\ f.err = "nil" => ~m.blocked
    /\ Commit("B", h.w)
    /\ queue' = IF f.err = "nil" THEN m.q ELSE queue
    /\ nrecv' = IF e = "nil" THEN nrecv + 1 ELSE nrecv
    /\ owned' = IF r.err = "nil" THEN owned \cup {h.obj.fd} ELSE owned
    /\ ret' = [Result("RecvFile", "B", NoThing, 0, r.err, h.w) EXCEPT
                 !.arg = [t |-> "queue", v |-> queue, intact |-> Connected("B")],
                 !.obj = h.obj]
    /\ UNCHANGED <<deadline, scan, nsent, ncalls, wlog, rlog>>

\* conn.Write of one ordinary byte by A
Write(b) ==
  LET err == IF SockOpen(Peer("A")) THEN "nil" ELSE "EPIPE"
  IN /\ Connected("A")
     /\ Len(wlog) < MaxWrites
     /\ Len(queue) < MaxQueue
     /\ queue' = IF err = "nil"
                 THEN Append(queue, Note([b |-> b, fds |-> {}], 0, BadFd, 0))
                 ELSE queue
     /\ wlog' = IF err = "nil" THEN Append(wlog, b) ELSE wlog
     /\ ret' = Result("Write", "A", [t |-> "byte", v |-> b], 0, err, W("A", TRUE))
     /\ UNCHANGED <<deadline, scan, fdtab, garbage, held, nsent, nrecv, ncalls, rlog, owned>>

\* conn.Read of one ordinary byte by B: read(2) takes the segment at the
\* head of the queue; descriptors it carries are released unreceived.
Read ==
  /\ Connected("B")
  /\ queue # <<>> \/ ~SockOpen(Peer("B"))
  /\ queue' = IF queue = <<>> THEN queue ELSE Tail(queue)
  /\ rlog' = IF queue = <<>> THEN rlog ELSE Append(rlog, Head(queue).b)
  /\ ret' = Result("Read", "B", NoThing, IF queue = <<>> THEN 0 ELSE Head(queue).b,
                   IF queue = <<>> THEN "EOF" ELSE "nil", W("B", TRUE))
  /\ UNCHANGED <<deadline, scan, fdtab, garbage, held, nsent, nrecv, ncalls, wlog, owned>>

\* A opens a resource it does not have open yet: ioutil.TempFile, or a
\* dialled connection
Open(r) ==
  /\ Alive("A")
  /\ HasFree(fdtab["A"])
  /\ \A n \in DOMAIN fdtab["A"] : fdtab["A"][n] # r
  /\ fdtab' = [fdtab EXCEPT !["A"] = Install(@, r)]
  /\ ret' = Quiet
  /\ UNCHANGED <<deadline, scan, garbage, held, queue, nsent, nrecv, ncalls, wlog, rlog, owned>>

\* B closes a descriptor RecvFD gave it: syscall.Close(fd)
CloseFd(n) ==
  /\ n \in DOMAIN fdtab["B"] \cap owned
  /\ fdtab' = [fdtab EXCEPT !["B"] = CloseNum(@, n)]
  /\ owned' = owned \ {n}
  /\ ret' = Quiet
  /\ UNCHANGED <<deadline, scan, garbage, held, queue, nsent, nrecv, ncalls, wlog, rlog>>

\* A's main returns: the process ends and the kernel closes all it had open
Exit ==
  /\ Alive("A")
  /\ fdtab' = [fdtab EXCEPT !["A"] = <<>>]
  /\ garbage' = [garbage EXCEPT !["A"] = [n \in Fds |-> 0]]
  /\ held' = [held EXCEPT !["A"] = <<>>]
  /\ ret' = Quiet
  /\ UNCHANGED <<deadline, scan, queue, nsent, nrecv, ncalls, wlog, rlog, owned>>

\* The runtime runs the finalizer of one unreachable object of p: it closes
\* the descriptor number the object wraps, whatever that number is by now.
GC(p, n) ==
  /\ garbage[p][n] > 0
  /\ garbage' = [garbage EXCEPT ![p][n] = @ - 1]
  /\ fdtab' = [fdtab EXCEPT ![p] = CloseNum(@, n)]
  /\ ret' = Quiet
  /\ UNCHANGED <<deadline, scan, held, queue, nsent, nrecv, ncalls, wlog, rlog, owned>>

\* conn.SetReadDeadline(t) on B's connection, a method UnixConn has from
\* the *net.UnixConn it embeds
SetReadDeadline ==
  /\ Connected("B")
  /\ deadline = "none"
  /\ deadline' = "set"
  /\ ret' = Quiet
  /\ UNCHANGED <<fdtab, garbage, held, queue, nsent, nrecv, ncalls, wlog, rlog, owned, scan>>

\* The time of the deadline passes.  The runtime's poller then wakes the
\* reads that wait in it; RecvFD does not wait there but in
\* syscall.Recvmsg on socketFile.Fd(), a descriptor in blocking mode.
Expire ==
  /\ deadline = "set"
  /\ deadline' = "expired"
  /\ ret' = Quiet
  /\ UNCHANGED <<fdtab, garbage, held, queue, nsent, nrecv, ncalls, wlog, rlog, owned, scan>>

\* ---- the resolver calls of B
HeldOf(p, kind) == {Obj(p, h) : h \in {x \in DOMAIN held[p] : held[p][x].kind = kind}}
Things(p) ==
  {FdT(n) : n \in DOMAIN fdtab[p] \cup owned \cup {BadFd}} \cup {InoT(i) : i \in Inodes \cup {Ghost}}
    \cup {FileT(o) : o \in HeldOf(p, "file")} \cup {ConnT(o) : o \in HeldOf(p, "conn")}
    \cup {NoThing}
Procfs(thing) == IF thing.t = "inode" THEN BOOLEAN ELSE {TRUE}

CallToFd(p, thing) ==
  /\ ncalls < MaxCalls
  /\ \E procfs \in Procfs(thing) :
       \E r \in {ToFd(W(p, procfs), thing)} :
          /\ ncalls' = ncalls + 1
          /\ Commit(p, r.w)
          /\ ret' = Result("ToFd", p, thing, r.val, r.err, r.w) @@ [procfs |-> procfs]
          /\ UNCHANGED <<deadline, scan, queue, nsent, nrecv, wlog, rlog, owned>>

CallToFile(p, thing) ==
  /\ ncalls < MaxCalls
  /\ \E procfs \in Procfs(thing) :
       \E r \in {ToFile(W(p, procfs), thing)} :
       \E h \in {IF r.err = "nil" THEN Hold(r.w, "file", r.file)
                 ELSE [obj |-> NoFile, w |-> r.w]} :
          /\ ncalls' = ncalls + 1
          /\ Commit(p, h.w)
          /\ ret' = [Result("ToFile", p, thing, 0, r.err, h.w) EXCEPT !.obj = h.obj]
                      @@ [procfs |-> procfs]
          /\ UNCHANGED <<deadline, scan, queue, nsent, nrecv, wlog, rlog, owned>>

CallToConn(p, thing) ==
  /\ ncalls < MaxCalls
  /\ \E procfs \in Procfs(thing) :
       \E r \in {ToConn(W(p, procfs), thing)} :
       \E h \in {IF r.err = "nil" THEN Hold(r.w, "conn", r.conn)
                 ELSE [obj |-> NoFile, w |-> r.w]} :
          /\ ncalls' = ncalls + 1
          /\ Commit(p, h.w)
          /\ ret' = [Result("ToConn", p, thing, 0, r.err, h.w) EXCEPT !.obj = h.obj]
                      @@ [src |-> r.src, procfs |-> procfs]
          /\ UNCHANGED <<deadline, scan, queue, nsent, nrecv, wlog, rlog, owned>>

CallToInode(p, thing) ==
  /\ ncalls < MaxCalls
  /\ \E procfs \in Procfs(thing) :
       \E r \in {ToInode(W(p, procfs), thing)} :
          /\ ncalls' = ncalls + 1
          /\ Commit(p, r.w)
          /\ ret' = Result("ToInode", p, thing, r.val, r.err, r.w) @@ [procfs |-> procfs]
          /\ UNCHANGED <<deadline, scan, queue, nsent, nrecv, wlog, rlog, owned>>

CallInodeToConn(p, inode) ==
  /\ ncalls < MaxCalls
  /\ \E procfs \in BOOLEAN :
       \E r \in {InodeToConn(W(p, procfs), inode)} :
       \E h \in {IF r.err = "nil" THEN Hold(r.w, "conn", r.conn)
                 ELSE [obj |-> NoFile, w |-> r.w]} :
          /\ ncalls' = ncalls + 1
          /\ Commit(p, h.w)
          /\ ret' = [Result("InodeToConn", p, InoT(inode), 0, r.err, h.w) EXCEPT !.obj = h.obj]
                      @@ [src |-> r.src, procfs |-> procfs]
          /\ UNCHANGED <<deadline, scan, queue, nsent, nrecv, wlog, rlog, owned>>

\* The caller lets go of an object it was given without closing it
Drop(p, h) ==
  /\ h \in DOMAIN held[p] \ {TheConn}
  /\ garbage[p][held[p][h].fd] < MaxGarbage
  /\ garbage' = [garbage EXCEPT ![p][held[p][h].fd] = @ + 1]
  /\ held' = [held EXCEPT ![p] = [x \in DOMAIN held[p] \ {h} |-> held[p][x]]]
  /\ ret' = Quiet
  /\ UNCHANGED <<deadline, scan, fdtab, queue, nsent, nrecv, ncalls, wlog, rlog, owned>>

\* The caller closes an object it was given: file.Close() / conn.Close()
CloseHandle(p, h) ==
  /\ h \in DOMAIN held[p] \ {TheConn}
  /\ fdtab' = [fdtab EXCEPT ![p] = CloseNum(@, held[p][h].fd)]
  /\ held' = [held EXCEPT ![p] = [x \in DOMAIN held[p] \ {h} |-> held[p][x]]]
  /\ owned' = owned \ {held[p][h].fd}
  /\ ret' = Quiet
  /\ UNCHANGED <<deadline, scan, garbage, queue, nsent, nrecv, ncalls, wlog, rlog>>

\* No ToFd(inode) is under way
Idle == [pc |-> "idle", names |-> <<>>, inode |-> 0, fd |-> 0]

\* ---- ToFd(inode) of B step by step, beside another thread of B
\* ToFd(inode) starts: the directory is read
ScanBegin(inode) ==
  /\ scan.pc = "idle"
  /\ ncalls < MaxScans
  /\ \E d \in {ReadDir(W("B", TRUE))} :
       /\ d.err = "nil"
       /\ Commit("B", d.w)
       /\ scan' = [pc |-> "loop", names |-> d.names, inode |-> inode, fd |-> 0]
  /\ ncalls' = ncalls + 1
  /\ ret' = Quiet
  /\ UNCHANGED <<deadline, queue, nsent, nrecv, wlog, rlog, owned>>

\* One turn of the loop: ToInode(fd) of the next entry, and the comparison
ScanProbe ==
  /\ scan.pc = "loop"
  /\ scan.names # <<>>
  /\ \E r \in {ToInodeNum(W("B", TRUE), Head(scan.names))} :
       /\ Commit("B", r.w)
       /\ scan' = IF r.err = "nil" /\ r.val = scan.inode
                  THEN [scan EXCEPT !.pc = "found", !.fd = Head(scan.names)]
                  ELSE [scan EXCEPT !.names = Tail(scan.names)]
  /\ ret' = Quiet
  /\ UNCHANGED <<deadline, queue, nsent, nrecv, ncalls, wlog, rlog, owned>>

\* ToFd(inode) returns: the descriptor that compared equal, or the error
\* after the last entry
ScanReturn ==
  /\ \/ scan.pc = "found"
     \/ scan.pc = "loop" /\ scan.names = <<>>
  /\ ret' = Result("ToFd", "B", InoT(scan.inode),
                   IF scan.pc = "found" THEN scan.fd ELSE 0,
                   IF scan.pc = "found" THEN "nil" ELSE "NotFound",
                   W("B", TRUE)) @@ [procfs |-> TRUE]
  /\ scan' = Idle
  /\ UNCHANGED <<deadline, fdtab, garbage, held, queue, nsent, nrecv, ncalls, wlog, rlog, owned>>

\* Another thread of B opens a resource: it gets the lowest free number
OpenB(r) ==
  /\ HasFree(fdtab["B"])
  /\ Cardinality(DOMAIN fdtab["B"] \ (owned \cup {held["B"][TheConn].fd})) < MaxOpens
  /\ fdtab' = [fdtab EXCEPT !["B"] = Install(@, r)]
  /\ ret' = Quiet
  /\ UNCHANGED <<deadline, scan, garbage, held, queue, nsent, nrecv, ncalls, wlog, rlog, owned>>

\* ---- the system
\* B has accepted A's connection; each end is the first descriptor of its
\* process.
Init ==
  /\ fdtab = [p \in Procs |-> (0 :> End(p))]
  /\ garbage = [p \in Procs |-> [n \in Fds |-> 0]]
  /\ held = [p \in Procs |-> (TheConn :> [kind |-> "conn", fd |-> 0])]
  /\ queue = <<>>
  /\ nsent = 0
  /\ nrecv = 0
  /\ ncalls = 0
  /\ wlog = <<>>
  /\ rlog = <<>>
  /\ owned = {}
  /\ deadline = "none"
  /\ scan = Idle
  /\ ret = Quiet

\* Spec: the channel with ordinary traffic.  A opens resources, passes them
\* and writes bytes; B receives descriptors and reads bytes.
Next ==
  \/ \E r \in Files \cup {SockX} : Open(r)
  \/ \E n \in Fds : SendFD(n)
  \/ \E b \in Bytes : Write(b)
  \/ Exit
  \/ RecvFD
  \/ Read
  \/ \E n \in Fds : CloseFd(n)
  \/ \E p \in Procs, n \in Fds : GC(p, n)

Spec == Init /\ [][Next]_vars

\* SpecOwner: the hand-off and what B then does with the descriptors it
\* received.
Received == {FdT(n) : n \in owned}

NextOwner ==
  \/ \E r \in Files \cup {SockX} : Open(r)
  \/ \E n \in Fds : SendFD(n)
  \/ Exit
  \/ RecvFD
  \/ \E n \in Fds : CloseFd(n)
  \/ \E p \in Procs, n \in Fds : GC(p, n)
  \/ \E t \in Received : CallToFd("B", t)
  \/ \E t \in Received : CallToFile("B", t)
  \/ \E t \in Received : CallToConn("B", t)
  \/ \E t \in Received : CallToInode("B", t)
  \/ \E h \in DOMAIN held["B"] : Drop("B", h)
  \/ \E h \in DOMAIN held["B"] : CloseHandle("B", h)

SpecOwner == Init /\ [][NextOwner]_vars

\* SpecResolver: the resolver of B alone, given anything, from the states
\* the hand-offs leave B in.  RecvFD puts the duplicate of the connection on
\* the lowest free number and the received descriptor above it, so B has
\* its connection on 0 and what it received and kept on the numbers from 2;
\* A still has open what it passed.
Kept == [(2 .. (MaxFd - 1)) -> Files \cup {SockX, Ghost}]

InitResolver ==
  \E k \in Kept :
    /\ fdtab = [p \in Procs |->
         IF p = "A" THEN [n \in 0 .. NumFiles + 1 |-> IF n = 0 THEN SockA ELSE n]
         ELSE [n \in {0} \cup {m \in DOMAIN k : k[m] # Ghost} |->
                 IF n = 0 THEN SockB ELSE k[n]]]
    /\ garbage = [p \in Procs |-> [n \in Fds |-> 0]]
    /\ held = [p \in Procs |-> (TheConn :> [kind |-> "conn", fd |-> 0])]
    /\ queue = <<>>
    /\ nsent = Cardinality({m \in DOMAIN k : k[m] # Ghost})
    /\ nrecv = nsent
    /\ ncalls = 0
    /\ wlog = <<>>
    /\ rlog = <<>>
    /\ owned = {m \in DOMAIN k : k[m] # Ghost}
    /\ deadline = "none"
    /\ scan = Idle
    /\ ret = Quiet

NextResolver ==
  \/ \E t \in Things("B") : CallToFd("B", t)
  \/ \E t \in Things("B") : CallToFile("B", t)
  \/ \E t \in Things("B") : CallToConn("B", t)
  \/ \E t \in Things("B") : CallToInode("B", t)
  \/ \E i \in Inodes \cup {Ghost} : CallInodeToConn("B", i)
  \/ \E n \in Fds : GC("B", n)
  \/ \E h \in DOMAIN held["B"] : Drop("B", h)
  \/ \E h \in DOMAIN held["B"] : CloseHandle("B", h)

SpecResolver == InitResolver /\ [][NextResolver]_vars

\* SpecFiles: the channel with all four of its calls, and B closing or
\* letting go of the files it was given.
NextFiles ==
  \/ \E r \in Files \cup {SockX} : Open(r)
  \/ \E n \in Fds : SendFD(n)
  \/ \E n \in Fds : SendFile(n)
  \/ Exit
  \/ RecvFD
  \/ RecvFile
  \/ \E n \in Fds : CloseFd(n)
  \/ \E p \in Procs, n \in Fds : GC(p, n)
  \/ \E h \in DOMAIN held["B"] : Drop("B", h)
  \/ \E h \in DOMAIN held["B"] : CloseHandle("B", h)

SpecFiles == Init /\ [][NextFiles]_vars

\* SpecParse: what RecvFD makes of buf, for everything a receive can
\* leave in a buffer of CmsgSpace(4) bytes: nothing, or one control message
\* of some level and type with room for MaxRights descriptors.
Levels == {"SOL_SOCKET", "SOL_IP"}
Types == {"SCM_RIGHTS", "SCM_CREDENTIALS"}
Rights == UNION {[1 .. k -> Fds] : k \in 0 .. MaxRights}
Bufs ==
  {<<>>} \cup {<<[level |-> l, type |-> t, fds |-> d]>> : l \in Levels, t \in Types, d \in Rights}

InitParse ==
  /\ fdtab = [p \in Procs |-> (0 :> End(p))]
  /\ garbage = [p \in Procs |-> [n \in Fds |-> 0]]
  /\ held = [p \in Procs |-> (TheConn :> [kind |-> "conn", fd |-> 0])]
  /\ queue = <<>>
  /\ nsent = 0
  /\ nrecv = 0
  /\ ncalls = 0
  /\ wlog = <<>>
  /\ rlog = <<>>
  /\ owned = {}
  /\ deadline = "none"
  /\ scan = Idle
  /\ \E b \in Bufs : ret = [op |-> "Recvmsg", buf |-> b, val |-> 0, err |-> "nil"]

\* RecvFD goes on after Recvmsg has returned
Parse ==
  /\ ret.op = "Recvmsg"
  /\ \E x \in {Extract(ret.buf)} :
       ret' = [op |-> "RecvFD", buf |-> ret.buf, val |-> x.val, err |-> x.err]
  /\ UNCHANGED <<fdtab, garbage, held, queue, nsent, nrecv, ncalls, wlog, rlog, owned,
                 deadline, scan>>

NextParse == Parse

SpecParse == InitParse /\ [][NextParse]_vars

\* SpecDeadline: B calls RecvFD again and again, with a read deadline on
\* its connection; A sends or exits when it likes.  A RecvFD call that can
\* return does, and time passes.
NextDeadline ==
  \/ \E r \in Files \cup {SockX} : Open(r)
  \/ \E n \in Fds : SendFD(n)
  \/ Exit
  \/ RecvFD
  \/ SetReadDeadline
  \/ Expire
  \/ \E p \in Procs, n \in Fds : GC(p, n)

SpecDeadline ==
  Init /\ [][NextDeadline]_vars /\ WF_vars(RecvFD) /\ WF_vars(Expire)

\* SpecRace: ToFd(inode) in one thread of B while another closes
\* descriptors and opens resources.  Finalizers are left out here: what
\* they do to the caller's descriptors is followed under SpecOwner.
NextRace ==
  \/ \E i \in Inodes : ScanBegin(i)
  \/ ScanProbe
  \/ ScanReturn
  \/ \E n \in Fds : CloseFd(n)
  \/ \E r \in Files \cup {SockX} : OpenB(r)

SpecRace == InitResolver /\ [][NextRace]_vars

\* ---- the channel's contract (checked under Spec)
\* the world B is in, for a call evaluated in the current state
Here == W("B", TRUE)

\* the segment a RecvFD call found at the head of the queue
Taken == Head(ret.arg.v)

\* C1: a RecvFD on B's intact connection that takes the segment a successful
\* SendFD(fdX) queued returns without error a descriptor fdY that is open
\* in B, and ToInode(fdY) in B is what ToInode(fdX) was in A at the send.
\* (A call that would need more descriptors than the table has is not
\* part of the model.)
C1_SendRecvSameInode ==
  (ret.op = "RecvFD" /\ ret.arg.intact /\ ret.arg.v # <<>> /\ Taken.fds # {})
    => /\ ret.err = "nil"
       /\ ret.val \in DOMAIN fdtab["B"]
       /\ \A i \in {ToInode(Here, FdT(ret.val))} :
            i.err = "nil" /\ i.val = Taken.ino

C1_Witness ==
  /\ ret.op = "RecvFD" /\ ret.err = "nil" /\ ret.arg.intact
  /\ Taken.fds # {} /\ Taken.ino = SockX
  /\ ret.val \in DOMAIN fdtab["B"] /\ fdtab["B"][ret.val] = SockX

\* no ordinary byte has been written or read
NoTraffic == wlog = <<>> /\ rlog = <<>>

\* C2: with one sender, one receiver and no other traffic, the queue holds
\* exactly the hand-offs sent and not yet received, in the order sent, one
\* descriptor each; the k-th successful RecvFD takes the segment of the
\* k-th successful SendFD, returns a descriptor of the resource that
\* segment carries, and removes that one segment and no other.
C2_OnePerPairInOrder ==
  NoTraffic =>
    /\ Len(queue) = nsent - nrecv
    /\ \A i \in DOMAIN queue :
         queue[i].k = nrecv + i /\ Cardinality(queue[i].fds) = 1
    /\ (ret.op = "RecvFD" /\ ret.err = "nil") =>
         /\ ret.arg.v # <<>>
         /\ Taken.k = nrecv
         /\ ret.val \in DOMAIN ret.post
         /\ ret.val \notin DOMAIN ret.pre
         /\ ret.post[ret.val] \in Taken.fds
         /\ queue = Tail(ret.arg.v)

C2_Witness ==
  /\ NoTraffic
  /\ ret.op = "RecvFD" /\ ret.err = "nil"
  /\ nsent = 2 /\ nrecv = 2
  /\ Len(ret.arg.v) = 1

\* C3: a RecvFD that returns on B's intact connection when no hand-off is
\* pending (one call more than descriptors were sent) fails with EINVAL,
\* returns no descriptor, and installs none in B besides the duplicate of
\* the connection it works on.  (While the peer is connected such a call
\* waits; it returns once the peer is gone.)
C3_ExhaustedIsEINVAL ==
  (ret.op = "RecvFD" /\ ret.arg.intact /\ InFlight(ret.arg.v) = {})
    => /\ ret.err = "EINVAL"
       /\ ret.val = 0
       /\ \A n \in DOMAIN ret.post \ DOMAIN ret.pre : ret.post[n] = End("B")

C3_Witness ==
  /\ ret.op = "RecvFD" /\ ret.err = "EINVAL" /\ ret.arg.intact
  /\ ret.arg.v = <<>>
  /\ nsent = 2 /\ nrecv = 2

\* C4: the ordinary bytes B has read are the ordinary bytes A has written,
\* in order: what was read is a prefix of what was written, and once A is
\* gone and the queue is drained the two are equal.
C4_ByteStreamUntouched ==
  /\ Len(rlog) <= Len(wlog)
  /\ \A i \in DOMAIN rlog : i <= Len(wlog) => rlog[i] = wlog[i]
  /\ (queue = <<>> /\ ~Alive("A")) => rlog = wlog

\* ---- the resolver's contract (checked under SpecResolver)
\* C5: ToFd of a descriptor number returns that number, ToFile of an
\* *os.File returns that same object, ToConn of a net.Conn returns that
\* same object; each without error and with the descriptor table as it
\* was before the call.
C5_Idempotent ==
  /\ (ret.op = "ToFd" /\ ret.arg.t = "fd" /\ ret.arg.v \in Fds)
       => ret.err = "nil" /\ ret.val = ret.arg.v /\ ret.post = ret.pre
  /\ (ret.op = "ToFile" /\ ret.arg.t = "file")
       => ret.err = "nil" /\ ret.obj = ret.arg.v /\ ret.post = ret.pre
  /\ (ret.op = "ToConn" /\ ret.arg.t = "conn")
       => ret.err = "nil" /\ ret.obj = ret.arg.v /\ ret.post = ret.pre

C5_Witness ==
  /\ ret.op = "ToConn" /\ ret.arg.t = "conn" /\ ret.err = "nil"
  /\ ret.arg.v.id # TheConn
  /\ ret.obj = ret.arg.v

\* the objects B holds, as things
Handles ==
  {FileT(o) : o \in HeldOf("B", "file")} \cup {ConnT(o) : o \in HeldOf("B", "conn")}

\* C6: for every object R that B holds, ToFd(ToFile(ToFd(R))) = ToFd(R), and
\* none of the three calls returns an error.
C6_RoundTrip ==
  \A R \in Handles :
    \A a \in {ToFd(Here, R)} :
    \A b \in {ToFile(a.w, FdT(a.val))} :
    \A c \in {ToFd(b.w, FileT(b.file))} :
      a.err = "nil" /\ b.err = "nil" /\ c.err = "nil" /\ c.val = a.val

C6_Witness ==
  /\ ret.op = "ToFile" /\ ret.err = "nil"
  /\ FileT(ret.obj) \in Handles
  /\ ret.obj.fd \in DOMAIN fdtab["B"]
  /\ ToFd(Here, FileT(ret.obj)).val = ret.obj.fd

\* C7 as stated: after a hand-off the sender's descriptor and the
\* receiver's new descriptor are distinct integers with the same inode.
C7_DistinctAcrossProcesses ==
  (ret.op = "RecvFD" /\ ret.err = "nil")
    => /\ ret.val # Taken.fd
       /\ ToInode(Here, FdT(ret.val)).val = Taken.ino

\* C7, amended: the descriptor a hand-off gives the receiver has the inode
\* the sender's descriptor had, whatever the two numbers are (each is an
\* index into its own process's table, and they may be equal); and the
\* connection ToConn makes from a descriptor, a file or an inode owns a
\* descriptor of the same process that differs from the one it was made
\* from and has the same inode.
C7_InodeStable ==
  /\ (ret.op = "RecvFD" /\ ret.err = "nil")
       => /\ ret.val \in DOMAIN fdtab["B"]
          /\ fdtab["B"][ret.val] = Taken.ino
          /\ ToInode(Here, FdT(ret.val)).val = Taken.ino
  /\ \A thing \in Things("B") :
       \A r \in {ToConn(Here, thing)} :
         (thing.t # "conn" /\ r.err = "nil")
           => /\ r.conn.fd # r.src
              /\ {r.conn.fd, r.src} \subseteq DOMAIN r.w.tab
              /\ r.w.tab[r.conn.fd] = r.w.tab[r.src]
              /\ ToInode(r.w, FdT(r.conn.fd)).val = ToInode(r.w, FdT(r.src)).val

C7_Witness ==
  /\ ret.op = "RecvFD" /\ ret.err = "nil"
  /\ ret.val = Taken.fd
  /\ fdtab["B"][ret.val] = SockX
  /\ ToConn(Here, FdT(ret.val)).err = "nil"

\* C8: when ToFd of an inode succeeds, the descriptor it returns is open in
\* the calling process and has that inode, ToInode of it is that inode,
\* and no descriptor with that inode comes before it in ReadDir's order; so
\* if only one descriptor has the inode, that is the one returned.
C8_FirstMatch ==
  (ret.op = "ToFd" /\ ret.arg.t = "inode" /\ ret.err = "nil")
    => /\ ret.val \in DOMAIN ret.pre
       /\ ret.pre[ret.val] = ret.arg.v
       /\ ToInode(Here, FdT(ret.val)).val = ret.arg.v
       /\ \A n \in DOMAIN ret.pre :
            ret.pre[n] = ret.arg.v /\ n # ret.val => NameLess(ret.val, n)

C8_Witness ==
  /\ ret.op = "ToFd" /\ ret.arg.t = "inode" /\ ret.err = "nil"
  /\ Cardinality({n \in DOMAIN ret.pre : ret.pre[n] = ret.arg.v}) >= 2

\* a lookup by inode that found no descriptor of the caller with that inode
NoMatch ==
  /\ ret.op \in {"ToFd", "ToFile", "ToConn", "InodeToConn"}
  /\ ret.arg.t = "inode"
  /\ \A n \in DOMAIN ret.pre : ret.pre[n] # ret.arg.v

\* C9 as stated: with /proc/self/fd readable, every lookup by an inode the
\* caller has no descriptor for fails with the NotFound error.
C9_AlwaysNotFound ==
  (NoMatch /\ ret.procfs) => ret.err = "NotFound"

\* C9, amended: a lookup by an inode the caller has no descriptor for
\* returns no descriptor and leaves the table as it was, even when another
\* process has the resource open.  The error is NotFound from ToFd and
\* from InodeToConn; ToFile and ToConn replace it by their own "cannot
\* create *os.File" error; and when /proc/self/fd cannot be read ToFd
\* returns that failure instead.
C9_NegativeLookup ==
  NoMatch =>
    /\ ret.err = CASE ret.op = "InodeToConn" -> "NotFound"
                   [] ret.op = "ToFd" -> IF ret.procfs THEN "NotFound" ELSE "LookupFailed"
                   [] OTHER -> "NoFile"
    /\ ret.val = 0 /\ ret.obj = NoFile
    /\ ret.post = ret.pre

C9_Witness ==
  /\ NoMatch /\ ret.procfs
  /\ ret.op = "ToConn" /\ ret.err = "NoFile"
  /\ \E n \in DOMAIN fdtab["A"] : fdtab["A"][n] = ret.arg.v

\* C10: a descriptor RecvFD returned stays open until the caller closes it
\* or closes an object it was given for it.
C10_NeverClosedImplicitly == owned \subseteq DOMAIN fdtab["B"]

\* ---- the channel and the connection it wraps (checked under SpecFiles)
\* the calls of the channel
ChannelOps == {"SendFD", "RecvFD", "SendFile", "RecvFile"}

\* C11: the channel never closes the connection it wraps.  Whatever SendFD,
\* RecvFD, SendFile and RecvFile calls were made, with or without error,
\* and whatever finalizers ran since, the connection of a live process
\* still owns an open descriptor of its end of the channel, and a further
\* call gets its duplicate of it.
C11_ConnectionStaysOpen ==
  \A p \in Procs :
    Alive(p) => /\ Connected(p)
                /\ File(W(p, TRUE)).err \notin {"ErrClosed", "EBADF"}

\* B's second RecvFile has returned, after the finalizer of an earlier
\* call's duplicate ran
C11_Witness ==
  /\ ret.op = "RecvFile"
  /\ ret.err = "nil"
  /\ nrecv = 2
  /\ 1 \notin DOMAIN ret.pre
  /\ Connected("B")

\* C18 (does not hold): the channel keeps no descriptor of its own.  When
\* SendFD returns, and when RecvFD returns with an error, the process has
\* the same descriptors open as before the call; when RecvFD returns a
\* descriptor, that one is the only addition.
C18_NoDescriptorKept ==
  (ret.op \in ChannelOps)
    => DOMAIN ret.post =
         DOMAIN ret.pre \cup
           (IF ret.op = "RecvFD" /\ ret.err = "nil" THEN {ret.val}
            ELSE IF ret.op = "RecvFile" /\ ret.err = "nil" THEN {ret.obj.fd}
            ELSE {})

\* ---- the resolver's contract, continued (checked under SpecResolver)
\* C12: ToInode of an inode returns that inode and no error whenever
\* /proc/self/fd can be read, whether or not a descriptor of the process
\* has that inode.
C12_InodePassThrough ==
  (ret.op = "ToInode" /\ ret.arg.t = "inode" /\ ret.procfs)
    => ret.err = "nil" /\ ret.val = ret.arg.v

\* ToInode was given an inode that no descriptor of B has
C12_Witness ==
  /\ ret.op = "ToInode"
  /\ ret.arg = InoT(Ghost)
  /\ ret.procfs
  /\ \A n \in DOMAIN ret.pre : ret.pre[n] # Ghost
  /\ ret.val = Ghost

\* C13: ToFd of an *os.File or a connection returns the descriptor the
\* object owns, without error, and the process has the same descriptors
\* open after the call as before it.
C13_OwnDescriptor ==
  (ret.op = "ToFd" /\ ret.arg.t \in {"file", "conn"})
    => /\ ret.err = "nil"
       /\ ret.val = ret.arg.v.fd
       /\ ret.post = ret.pre

\* ToFd was given a connection that ToConn had made on a duplicate
C13_Witness ==
  /\ ret.op = "ToFd"
  /\ ret.arg.t = "conn"
  /\ ret.arg.v.id # TheConn
  /\ ret.val = ret.arg.v.fd
  /\ ret.val \in DOMAIN ret.post

\* C14: ToConn of anything but a connection fails with ToFile's error and
\* returns no connection when the input resolves to no file; fails with
\* ENOTSOCK and returns no connection when the descriptor it resolved to
\* is open and not a socket; and returns a connection only on a socket.
C14_ToConnErrors ==
  (ret.op = "ToConn" /\ ret.arg.t # "conn")
    => /\ ret.src = BadFd => ret.err = "NoFile" /\ ret.obj = NoFile
       /\ (ret.src \in DOMAIN ret.pre /\ ~IsSocket(ret.pre[ret.src]))
            => ret.err = "ENOTSOCK" /\ ret.obj = NoFile
       /\ ret.err = "nil"
            => /\ ret.obj # NoFile
               /\ ret.obj.fd \in DOMAIN ret.post
               /\ IsSocket(ret.post[ret.obj.fd])
               /\ ret.src \in DOMAIN ret.pre
               /\ ret.post[ret.obj.fd] = ret.pre[ret.src]

\* ToConn was given the descriptor of a regular file and refused it
C14_Witness ==
  /\ ret.op = "ToConn"
  /\ ret.arg.t = "fd"
  /\ ret.arg.v \in DOMAIN ret.pre
  /\ ~IsSocket(ret.pre[ret.arg.v])
  /\ ret.err = "ENOTSOCK"
  /\ ret.obj = NoFile

\* the descriptors open before the last call that had inode i
Matches(i) == {n \in DOMAIN ret.pre : ret.pre[n] = i}

\* C17: ToFd of an inode fails with NotFound only if no open descriptor has
\* the inode and with LookupFailed only if /proc/self/fd cannot be read;
\* when it can be read and some descriptor has the inode, the call
\* returns one that has, wherever in the listing it stands: entries whose
\* inode cannot be read are passed over.
C17_DiscoveryComplete ==
  (ret.op = "ToFd" /\ ret.arg.t = "inode")
    => /\ ret.err \in {"nil", "NotFound", "LookupFailed"}
       /\ ret.err = "NotFound" => Matches(ret.arg.v) = {}
       /\ ret.err = "LookupFailed" => ~ret.procfs
       /\ (ret.procfs /\ Matches(ret.arg.v) # {})
            => ret.err = "nil" /\ ret.val \in Matches(ret.arg.v)

\* The descriptor was found behind an entry that could not be read: the
\* number the directory itself had been opened on
C17_Witness ==
  /\ ret.op = "ToFd"
  /\ ret.arg.t = "inode"
  /\ ret.err = "nil"
  /\ ret.val \in Matches(ret.arg.v)
  /\ \E n \in Fds \ DOMAIN ret.pre : NameLess(n, ret.val)

\* ---- RecvFD and what it is handed (checked under SpecParse)
\* buf holds a rights message with at least one descriptor
HasDescriptor(buf) ==
  /\ buf # <<>>
  /\ buf[1].level = "SOL_SOCKET"
  /\ buf[1].type = "SCM_RIGHTS"
  /\ buf[1].fds # <<>>

Waiting ==
  /\ Connected("B")
  /\ queue = <<>>
  /\ SockOpen(Peer("B"))
  /\ HasFree(fdtab["B"])

\* C16 (does not hold): a RecvFD that waits with nothing pending and the
\* peer open returns, with an error, once the read deadline of the
\* connection has expired.
C16_DeadlineUnblocks ==
  [](((deadline = "expired") /\ Waiting) => <>(ret.op = "RecvFD" \/ ~Waiting))

\* ---- ToFd(inode) under concurrent activity (checked under SpecRace)
\* C19 (does not hold): whatever another thread closes or opens while
\* ToFd(inode) runs, a call that returns a descriptor returns one that, at
\* the moment of the return, is open and has the requested inode.
C19_NeverAnotherResource ==
  (ret.op = "ToFd" /\ ret.arg.t = "inode" /\ ret.err = "nil")
    => /\ ret.val \in DOMAIN ret.post
       /\ ret.post[ret.val] = ret.arg.v

====
